---- MODULE Spec2Model ----
(***************************************************************************)
(* A model of the arrakis chat client: the useWebSocket hook (connection   *)
(* life cycle, inbound frame dispatch, streaming reconciliation of the     *)
(* loaded conversation) and the MainPage operations built on it (submit a  *)
(* turn, start a new conversation, regenerate / fork).                     *)
(*                                                                         *)
(* Strings that the program concatenates or measures (message content, the *)
(* typed text, deltas) are sequences of characters; strings it only stores *)
(* or compares (names, the system prompt, tags) are TLA+ strings.          *)
(***************************************************************************)
EXTENDS Integers, Sequences, FiniteSets, TLC

\* ------------------------------------------------------------------ bounds
MaxMsgs == 4        \* longest conversation the model builds
MaxContent == 2     \* longest message content, in characters
MaxSockets == 5     \* WebSocket objects created in one run
MaxTimers == 2      \* retry timers pending at one time
MaxRetriesOpt == 2  \* largest maxRetries option the retry model tries
MaxUuids == 1       \* conversationDefault() calls after the first

\* ------------------------------------------------------- program constants
Null == -1                      \* JavaScript null in a nullable number field
DeployedMaxRetries == 0         \* maxRetries passed by MainPage

\* --------------------------------------------------------------- data model
Roles == {"System", "User", "Assistant"}
DefaultModel == "claude-3-5-sonnet-latest"
Models == {DefaultModel, "claude-3-5-haiku-latest"}
Statuses == {"connected", "disconnected"}

\* null + n in JavaScript arithmetic: null converts to 0
NumPlus(id, n) == (IF id = Null THEN 0 ELSE id) + n

Message(id, role, content, api, sp, seq) ==
    [id |-> id, message_type |-> role, content |-> content, api |-> api,
     system_prompt |-> sp, sequence |-> seq]

Conversation(id, name, messages) ==
    [id |-> id, name |-> name, messages |-> messages]

Uuid(n) == IF n = 0 THEN "uuid-0" ELSE IF n = 1 THEN "uuid-1"
           ELSE IF n = 2 THEN "uuid-2" ELSE "uuid-3"

\* A faulty variant of conversationDefault: the name is the first one again
conversationDefaultSameName(n) == Conversation(Null, Uuid(0), <<>>)

\* conversationDefault(): a fresh empty conversation named by a new UUID
conversationDefault(n) == Conversation(Null, Uuid(n), <<>>)

VARIABLES
    socket,              \* useState socket: 0 is null, else a socket number
    systemPrompt,        \* useState systemPrompt
    conversations,       \* useState conversations (the directory)
    loadedConversation,  \* useState loadedConversation
    connectionStatus,    \* useState connectionStatus
    error,               \* useState error: "null" or the Error recorded
    retryCount,          \* useState retryCount
    model,               \* MainPage useState model
    maxRetries,          \* the hook's maxRetries option
    mounted,             \* the React tree is mounted
    sockets,             \* the WebSocket objects: readyState and what their
                         \* handlers captured from the connect closure
    timers,              \* pending retry timeouts, in firing order
    connectCap,          \* what the memoised connect callback captured
    cleanupSocket,       \* socket captured by the effect's cleanup function
    uuids,               \* conversationDefault() calls so far, after mount
    out,                 \* requests put on the wire by the latest step
    ev,                  \* the latest step and its input
    stream               \* deltas received since the trailing placeholder
                         \* was created, with no other operation in between

state == <<socket, systemPrompt, conversations, loadedConversation,
           connectionStatus, error, retryCount>>
vars == <<socket, systemPrompt, conversations, loadedConversation,
          connectionStatus, error, retryCount, model, maxRetries, mounted,
          sockets, timers, connectCap, cleanupSocket, uuids, out, ev, stream>>

\* ------------------------------------------------- what the server may send
TextH == <<"h">>
DeltaA == <<"a">>
DeltaB == <<"b">>
Deltas == {DeltaA, DeltaB}
Texts == {<<>>, TextH}

\* Stored conversations the server may return: a plain exchange, one that
\* opens with a System message, and one whose sequence values are not its
\* array indexes (the client checks the schema only: sequence is z.number()).
SrvA == Conversation(5, "x",
          <<Message(10, "User", TextH, DefaultModel, "", 0),
            Message(11, "Assistant", DeltaA, DefaultModel, "", 1)>>)
SrvB == Conversation(6, "y",
          <<Message(20, "System", DeltaB, DefaultModel, "", 0),
            Message(21, "User", TextH, DefaultModel, "", 1),
            Message(22, "Assistant", DeltaA, DefaultModel, "", 2)>>)
SrvC == Conversation(7, "y",
          <<Message(30, "User", TextH, DefaultModel, "", 0),
            Message(31, "Assistant", DeltaB, DefaultModel, "", 3)>>)
ServerConversations == {SrvA, SrvB, SrvC}

\* A stored conversation whose last turn was never answered, and a directory
\* entry without an id (ConversationSchema: id is nullable)
SrvD == Conversation(8, "w",
          <<Message(40, "System", DeltaB, DefaultModel, "", 0),
            Message(41, "User", TextH, DefaultModel, "", 1)>>)
SrvN == Conversation(Null, "z", <<>>)

\* An inbound text frame.  json: the text parses; method: the top-level tag;
\* hasPayload / pmethod: the payload object and the tag inside it ("none"
\* when absent); missing: required payload fields that are absent.
BaseFrame ==
    [json |-> TRUE, method |-> "none", hasPayload |-> TRUE, pmethod |-> "none",
     missing |-> {}, delta |-> <<>>, name |-> "", conversationId |-> 0,
     requestId |-> 0, responseId |-> 0, body |-> "", content |-> "",
     conversations |-> <<>>, conv |-> Conversation(Null, "", <<>>)]

Places == {"top", "payload", "both"}
Tagged(f, tag, place) ==
    [f EXCEPT !.method = IF place \in {"top", "both"} THEN tag ELSE "none",
              !.pmethod = IF place \in {"payload", "both"} THEN tag ELSE "none"]

CompletionPayload(d, v) ==
    [BaseFrame EXCEPT !.delta = d,
                      !.name = IF v = 1 THEN "x" ELSE "y",
                      !.conversationId = IF v = 1 THEN 5 ELSE 6,
                      !.requestId = IF v = 1 THEN 10 ELSE 12,
                      !.responseId = IF v = 1 THEN 11 ELSE 13]
PingPayload == [BaseFrame EXCEPT !.body = "ping"]
ListPayload(l) == [BaseFrame EXCEPT !.conversations = l]
LoadPayload(c) == [BaseFrame EXCEPT !.conv = c]
PromptPayload(c) == [BaseFrame EXCEPT !.content = c]
Lacking(f, field) == [f EXCEPT !.missing = {field}]

CompletionFrames ==
    {Tagged(CompletionPayload(d, 1), "Completion", "both") : d \in Deltas}
    \cup {Tagged(CompletionPayload(DeltaA, 2), "Completion", "both")}
    \cup {Tagged(CompletionPayload(DeltaA, 1), "Completion", p) :
            p \in {"top", "payload"}}
    \cup {Tagged(Lacking(CompletionPayload(DeltaA, 1), "delta"), "Completion", "both")}
PingFrames == {Tagged(PingPayload, "Ping", p) : p \in {"top", "both"}}
ListFrames ==
    {Tagged(ListPayload(<<SrvA, SrvB>>), "ConversationList", p) : p \in {"top", "both"}}
    \cup {Tagged(Lacking(ListPayload(<<>>), "conversations"), "ConversationList", "both")}
    \cup {Tagged(ListPayload(<<SrvN>>), "ConversationList", "both")}
LoadFrames ==
    {Tagged(LoadPayload(c), "Load", "payload") : c \in ServerConversations}
    \cup {Tagged(LoadPayload(SrvA), "Load", "top"),
          Tagged(Lacking(LoadPayload(SrvA), "messages"), "Load", "payload")}
PromptFrames ==
    {Tagged(PromptPayload("be brief"), "SystemPrompt", p) : p \in {"top", "both"}}
    \cup {Tagged(Lacking(PromptPayload(""), "content"), "SystemPrompt", "both")}
OtherFrames ==
    {Tagged(BaseFrame, "Bogus", "both"),
     [BaseFrame EXCEPT !.hasPayload = FALSE, !.method = "Ping"],
     [BaseFrame EXCEPT !.json = FALSE]}
UnansweredFrames == {Tagged(LoadPayload(SrvD), "Load", "payload")}
InboundFrames ==
    CompletionFrames \cup PingFrames \cup ListFrames \cup LoadFrames
    \cup PromptFrames \cup OtherFrames \cup UnansweredFrames

\* ------------------------------------------------------------ the transport
NoSocket == [readyState |-> "NONE", capRetry |-> 0, capStatus |-> "disconnected"]
SocketIds == 1..MaxSockets

\* new WebSocket(url): the next unused socket number, 0 when the model's
\* supply is used up
FreshSocket(socks) ==
    IF \E n \in SocketIds : socks[n].readyState = "NONE"
    THEN CHOOSE n \in SocketIds :
            /\ socks[n].readyState = "NONE"
            /\ \A m \in SocketIds : socks[m].readyState = "NONE" => n <= m
    ELSE 0

\* connect(): a socket whose handlers close over the retryCount and
\* connectionStatus of the render that created this connect callback
Connect(socks, cap) ==
    [socks EXCEPT ![FreshSocket(socks)] =
        [readyState |-> "CONNECTING", capRetry |-> cap.retry,
         capStatus |-> cap.status]]

\* WebSocket.close()
CloseSocket(socks, s) ==
    IF s # 0 /\ socks[s].readyState \in {"CONNECTING", "OPEN"}
    THEN [socks EXCEPT ![s].readyState = "CLOSING"]
    ELSE socks

\* A faulty variant of sendMessage: the readyState tested is CONNECTING
sendMessageConnecting(sock, socks, message) ==
    IF sock # 0 /\ socks[sock].readyState = "CONNECTING" THEN <<message>> ELSE <<>>

\* A faulty variant of sendMessage: the readyState is not tested
sendMessageAlways(sock, socks, message) == <<message>>

\* sendMessage: the frames it puts on the wire
sendMessage(sock, socks, message) ==
    IF sock # 0 /\ socks[sock].readyState = "OPEN" THEN <<message>> ELSE <<>>

\* A faulty variant of the request sent on becoming connected: a heartbeat
\* that was dropped is sent again
PromptReadAsPing == [method |-> "Ping", payload |-> [body |-> "ping"]]

PromptRead ==
    [method |-> "SystemPrompt", payload |-> [write |-> FALSE, content |-> ""]]
PromptWrite(c) ==
    [method |-> "SystemPrompt", payload |-> [write |-> TRUE, content |-> c]]
PingRequest == [method |-> "Ping", payload |-> [body |-> "ping"]]
LoadRequest(id) == [method |-> "Load", payload |-> [id |-> id]]
ListRequest == [method |-> "ConversationList"]
CompletionRequest(c) == [method |-> "Completion", payload |-> c]
ForkRequest(id, k) ==
    [method |-> "Fork", payload |-> [conversationId |-> id, sequence |-> k]]

\* What follows a handler once React has rendered its state updates:
\* the useEffect([connect]) of the hook (cleanup, then connect() again, when
\* retryCount changed and so the connect callback was recreated), and
\* MainPage's useEffect([connectionStatus]).  m1, sock1, st1, err1, rc1, socks1
\* and tm1 are the values the handler leaves; sent1 is what it transmitted.
Commit(m1, sock1, st1, err1, rc1, socks1, tm1, sent1) ==
    LET recreate == m1 /\ rc1 # connectCap.retry
        unmount == mounted /\ ~m1
        socks2 == IF recreate \/ unmount
                  THEN CloseSocket(socks1, cleanupSocket) ELSE socks1
        cap2 == [retry |-> rc1, status |-> st1]
        statusSend == IF m1 /\ st1 = "connected" /\ connectionStatus # "connected"
                      THEN sendMessage(sock1, socks2, PromptRead) ELSE <<>>
    IN  /\ recreate => FreshSocket(socks2) # 0
        /\ mounted' = m1
        /\ connectionStatus' = st1
        /\ error' = err1
        /\ retryCount' = rc1
        /\ timers' = tm1
        /\ sockets' = IF recreate THEN Connect(socks2, cap2) ELSE socks2
        /\ socket' = IF recreate THEN FreshSocket(socks2) ELSE sock1
        /\ connectCap' = IF recreate THEN cap2 ELSE connectCap
        /\ cleanupSocket' = IF recreate THEN sock1 ELSE cleanupSocket
        /\ out' = sent1 \o statusSend

\* A step that leaves the connection as it is apart from what it transmits
Quiet(sent1) ==
    Commit(mounted, socket, connectionStatus, error, retryCount, sockets,
           timers, sent1)

\* zod object schemas: parse throws when a required field is absent
CompletionFields ==
    {"stream", "delta", "name", "conversationId", "requestId", "responseId"}
CompletionParses(f) == f.missing \cap CompletionFields = {}
ConversationParses(f) == f.missing \cap {"id", "name", "messages"} = {}
ListParses(f) == f.missing \cap {"conversations"} = {}

\* The latest step: the operation, what it did (the branch a frame took, the
\* kind of a closure), the text typed, the cut of a fork, the socket
Event(op, kind, text, k, s) ==
    [op |-> op, kind |-> kind, text |-> text, k |-> k, s |-> s, tag |-> "",
     parsed |-> FALSE]
\* A frame received on socket s: its top-level method, the branch taken and
\* whether the payload passed the schema parse of that branch
Received(f, branch, s) ==
    [op |-> "Receive", kind |-> branch, text |-> <<>>, k |-> 0, s |-> s,
     tag |-> f.method,
     parsed |-> \/ branch = "Completion" /\ CompletionParses(f)
                \/ branch = "ConversationList" /\ ListParses(f)
                \/ branch = "Load" /\ ConversationParses(f)
                \/ branch \in {"Ping", "SystemPrompt"}]

\* ------------------------------------------------------------ the reconciler
Last(seq) == seq[Len(seq)]
Min(a, b) == IF a < b THEN a ELSE b

\* The conversation ends with an Assistant message of empty content
EndsWithPlaceholder(c) ==
    /\ Len(c.messages) > 0
    /\ Last(c.messages).message_type = "Assistant"
    /\ Last(c.messages).content = <<>>

\* A faulty variant of the updater: the two identifiers change places
ApplyCompletionSwapped(prev, f) ==
    LET lcm == prev.messages
        n == Len(lcm)
        last == [lcm[n] EXCEPT !.content = @ \o f.delta, !.id = f.requestId]
        newMessages == [SubSeq(lcm, 1, n - 1) EXCEPT ![n - 1].id = f.responseId]
    IN  Conversation(f.conversationId, f.name, Append(newMessages, last))

\* A faulty variant of the updater: requestId goes to the first message
ApplyCompletionFirst(prev, f) ==
    LET lcm == prev.messages
        n == Len(lcm)
        last == [lcm[n] EXCEPT !.content = @ \o f.delta, !.id = f.responseId]
        newMessages == [SubSeq(lcm, 1, n - 1) EXCEPT ![1].id = f.requestId]
    IN  Conversation(f.conversationId, f.name, Append(newMessages, last))

\* The updater of the Completion branch, where it returns: the delta goes on
\* the end of the last message, which takes responseId; the message before
\* it takes requestId; the conversation takes conversationId and name.
ApplyCompletion(prev, f) ==
    LET lcm == prev.messages
        n == Len(lcm)
        last == [lcm[n] EXCEPT !.content = @ \o f.delta, !.id = f.responseId]
        newMessages == [SubSeq(lcm, 1, n - 1) EXCEPT ![n - 1].id = f.requestId]
    IN  Conversation(f.conversationId, f.name, Append(newMessages, last))

\* The updater throws: on a payload that does not parse, on an empty
\* conversation (last is undefined) and on a single message (there is no
\* message before the last)
CompletionThrows(prev, f) == ~CompletionParses(f) \/ Len(prev.messages) < 2

\* What the updater has written into the last message by the time it throws
\* on a single message: it changes the object held by the state in place
MutatedInPlace(prev, f) ==
    IF CompletionParses(f) /\ Len(prev.messages) = 1
    THEN [prev EXCEPT !.messages[1].content = @ \o f.delta,
                      !.messages[1].id = f.responseId]
    ELSE prev

\* A faulty variant of the Load branch: the loaded messages are put after
\* the ones already held
ApplyLoadMerge(prev, f) ==
    [f.conv EXCEPT !.messages = prev.messages \o f.conv.messages]

\* The Load branch: setLoadedConversation(conversation)
ApplyLoad(prev, f) == f.conv

Undefined == "<undefined>"

\* A faulty variant of the dispatch: a directory is taken for a conversation
DispatchListAsLoad(f, capStatus) ==
    IF ~f.json \/ ~f.hasPayload THEN "throw"
    ELSE IF f.pmethod = "Completion" THEN "Completion"
    ELSE IF f.pmethod = "Ping" /\ capStatus # "connected" THEN "Ping"
    ELSE IF f.pmethod \in {"ConversationList", "Load"} THEN "Load"
    ELSE IF f.pmethod = "SystemPrompt" THEN "SystemPrompt"
    ELSE "none"

\* ws.onmessage: the branch taken.  The tag read is the one inside the
\* payload; connectionStatus is the value the connect closure captured.
Dispatch(f, capStatus) ==
    IF ~f.json \/ ~f.hasPayload THEN "throw"
    ELSE IF f.pmethod = "Completion" THEN "Completion"
    ELSE IF f.pmethod = "Ping" /\ capStatus # "connected" THEN "Ping"
    ELSE IF f.pmethod = "ConversationList" THEN "ConversationList"
    ELSE IF f.pmethod = "Load" THEN "Load"
    ELSE IF f.pmethod = "SystemPrompt" THEN "SystemPrompt"
    ELSE "none"

\* ws.onmessage: the state it leaves.  crashed: the Completion updater threw,
\* which React meets while rendering, outside the handler's try/catch, and
\* answers by unmounting the tree.
OnMessage(f, capStatus, conv, list, prompt, status) ==
    LET b == Dispatch(f, capStatus) IN
    [conv |-> IF b = "Completion"
              THEN IF CompletionThrows(conv, f) THEN MutatedInPlace(conv, f)
                   ELSE ApplyCompletion(conv, f)
              ELSE IF b = "Load" /\ ConversationParses(f) THEN ApplyLoad(conv, f)
              ELSE conv,
     list |-> IF b = "ConversationList" /\ ListParses(f)
              THEN f.conversations ELSE list,
     prompt |-> IF b = "SystemPrompt"
                THEN IF "content" \in f.missing THEN Undefined ELSE f.content
                ELSE prompt,
     status |-> IF b = "Ping" THEN "connected" ELSE status,
     crashed |-> b = "Completion" /\ CompletionThrows(conv, f)]

\* The frames of a stream of deltas: recognised as Completion, payload valid
IsDelta(f) == f.json /\ f.hasPayload /\ f.pmethod = "Completion" /\ CompletionParses(f)

\* The trailing placeholder's record of deltas after a step that replaced or
\* rebuilt the conversation
StreamFrom(c) == [on |-> EndsWithPlaceholder(c), acc |-> <<>>]

Receive(s, f) ==
    /\ sockets[s].readyState = "OPEN"
    /\ LET r == OnMessage(f, sockets[s].capStatus, loadedConversation,
                          conversations, systemPrompt, connectionStatus)
           touches == mounted /\ Dispatch(f, sockets[s].capStatus) \in {"Completion", "Load"}
       IN  /\ \A i \in 1..Len(r.conv.messages) :
                 Len(r.conv.messages[i].content) <= MaxContent
           /\ loadedConversation' = IF mounted THEN r.conv ELSE loadedConversation
           /\ conversations' = IF mounted THEN r.list ELSE conversations
           /\ systemPrompt' = IF mounted THEN r.prompt ELSE systemPrompt
           /\ Commit(mounted /\ ~r.crashed, socket,
                     IF mounted THEN r.status ELSE connectionStatus,
                     error, retryCount, sockets, timers, <<>>)
           /\ stream' = IF ~touches THEN stream
                        ELSE IF IsDelta(f)
                        THEN [stream EXCEPT !.acc = IF stream.on THEN @ \o f.delta ELSE @]
                        ELSE IF r.crashed THEN [on |-> FALSE, acc |-> <<>>]
                        ELSE StreamFrom(r.conv)
    /\ ev' = Received(f, Dispatch(f, sockets[s].capStatus), s)
    /\ UNCHANGED <<model, maxRetries, uuids>>

\* A faulty variant of the new pair: sequence counted from one
NewMessagesFromOne(messages, data, api) ==
    LET n == Len(messages) IN
    messages \o
    << Message(IF n > 0 THEN NumPlus(messages[n].id, 1) ELSE Null,
               "User", data, api, "", n + 1),
       Message(IF n > 0 THEN NumPlus(messages[n].id, 2) ELSE Null,
               "Assistant", <<>>, api, "", n + 2) >>

\* A faulty variant of the new pair: both ids null whatever came before
NewMessagesNullIds(messages, data, api) ==
    LET n == Len(messages) IN
    messages \o
    << Message(Null, "User", data, api, "", n),
       Message(Null, "Assistant", <<>>, api, "", n + 1) >>

\* sendPrompt, on Enter without Shift, with data the text typed
NewMessages(messages, data, api) ==
    LET n == Len(messages) IN
    messages \o
    << Message(IF n > 0 THEN NumPlus(messages[n].id, 1) ELSE Null,
               "User", data, api, "", n),
       Message(IF n > 0 THEN NumPlus(messages[n].id, 2) ELSE Null,
               "Assistant", <<>>, api, "", n + 1) >>

\* A faulty variant of the guard: no guard, as in the earlier sendPrompt
EmptyTurnNever(data) == FALSE

\* The guard of sendPrompt: nothing is done for an empty text
EmptyTurn(data) == Len(data) = 0

Submit(data) ==
    /\ mounted
    /\ Len(data) > 0 => Len(loadedConversation.messages) + 2 <= MaxMsgs
    /\ LET newConversation ==
              [loadedConversation EXCEPT
                  !.messages = NewMessages(loadedConversation.messages, data, model)]
       IN  IF EmptyTurn(data)
           THEN /\ UNCHANGED <<loadedConversation, stream>>
                /\ Quiet(<<>>)
           ELSE /\ loadedConversation' = newConversation
                /\ stream' = StreamFrom(newConversation)
                /\ Quiet(sendMessage(socket, sockets, CompletionRequest(newConversation)))
    /\ ev' = Event("Submit", "", data, 0, 0)
    /\ UNCHANGED <<conversations, systemPrompt, model, maxRetries, uuids>>

\* The New button.  The step records whether deltas of a stream had arrived
\* on the conversation it replaces.
StartNew ==
    /\ mounted
    /\ uuids < MaxUuids
    /\ uuids' = uuids + 1
    /\ loadedConversation' = conversationDefault(uuids + 1)
    /\ stream' = StreamFrom(conversationDefault(uuids + 1))
    /\ Quiet(<<>>)
    /\ ev' = Event("StartNew",
                   IF stream.on /\ stream.acc # <<>> THEN "midstream" ELSE "",
                   <<>>, Len(loadedConversation.messages), 0)
    /\ UNCHANGED <<conversations, systemPrompt, model, maxRetries>>

\* A faulty variant of the Fork request's parse: a null id passes
ForkThrowsNever(c) == FALSE

\* Regenerate, clicked on message m: ForkRequestSchema.parse throws on a
\* null conversationId, before anything else is done
ForkThrows(c) == c.id = Null

\* A faulty variant of the cut: one message more is kept
ForkMessagesKeepNext(messages, k, prompt, api) ==
    LET cut == SubSeq(messages, 1, Min(k + 2, Len(messages)))
    IN  [cut EXCEPT ![Len(cut)] =
            [@ EXCEPT !.content = <<>>, !.id = Null,
                      !.message_type = "Assistant",
                      !.system_prompt = prompt, !.api = api]]

\* A faulty variant of the reset: the id of the message is kept
ForkMessagesKeepId(messages, k, prompt, api) ==
    LET cut == SubSeq(messages, 1, Min(k + 1, Len(messages)))
    IN  [cut EXCEPT ![Len(cut)] =
            [@ EXCEPT !.content = <<>>,
                      !.message_type = "Assistant",
                      !.system_prompt = prompt, !.api = api]]

\* messages.slice(0, m.sequence + 1) with its last element reset
ForkMessages(messages, k, prompt, api) ==
    LET cut == SubSeq(messages, 1, Min(k + 1, Len(messages)))
    IN  [cut EXCEPT ![Len(cut)] =
            [@ EXCEPT !.content = <<>>, !.id = Null,
                      !.message_type = "Assistant",
                      !.system_prompt = prompt, !.api = api]]

Fork(i) ==
    /\ mounted
    /\ i \in 1..Len(loadedConversation.messages)
    /\ loadedConversation.messages[i].message_type # "User"
    /\ LET k == loadedConversation.messages[i].sequence
           forked == [loadedConversation EXCEPT
                         !.messages = ForkMessages(@, k, systemPrompt, model)]
       IN  IF ForkThrows(loadedConversation)
           THEN /\ UNCHANGED <<loadedConversation, stream>>
                /\ Quiet(<<>>)
                /\ ev' = Event("Fork", "", <<>>, k, 0)
           ELSE /\ loadedConversation' = forked
                /\ stream' = StreamFrom(forked)
                /\ Quiet(sendMessage(socket, sockets,
                                     ForkRequest(loadedConversation.id, k)))
                /\ ev' = Event("Fork", "", <<>>, k, 0)
    /\ UNCHANGED <<conversations, systemPrompt, model, maxRetries, uuids>>

\* The model popup
SelectModel(m) ==
    /\ mounted
    /\ m # model
    /\ model' = m
    /\ Quiet(<<>>)
    /\ ev' = Event("SelectModel", "", <<>>, 0, 0)
    /\ UNCHANGED <<conversations, systemPrompt, loadedConversation, maxRetries,
                   uuids, stream>>

\* A faulty variant of the heartbeat: it runs only while connected
PingTickWhenConnected ==
    /\ mounted
    /\ connectionStatus = "connected"
    /\ Quiet(sendMessage(socket, sockets, PingRequest))
    /\ ev' = Event("PingTick", "", <<>>, 0, 0)
    /\ UNCHANGED <<conversations, systemPrompt, loadedConversation, model,
                   maxRetries, uuids, stream>>

\* The heartbeat: every tick of the interval sends a Ping
PingTick ==
    /\ mounted
    /\ Quiet(sendMessage(socket, sockets, PingRequest))
    /\ ev' = Event("PingTick", "", <<>>, 0, 0)
    /\ UNCHANGED <<conversations, systemPrompt, loadedConversation, model,
                   maxRetries, uuids, stream>>

\* What the prompt editor may hold when it loses focus
PromptTexts == {"be kind"}

\* A faulty variant of the prompt editor: the text is also stored locally
WritePromptOptimistic(c) ==
    /\ mounted
    /\ Quiet(sendMessage(socket, sockets, PromptWrite(c)))
    /\ systemPrompt' = c
    /\ ev' = Event("WritePrompt", c, <<>>, 0, 0)
    /\ UNCHANGED <<conversations, loadedConversation, model, maxRetries,
                   uuids, stream>>

\* promptInput onBlur: the text of the editor is sent as a SystemPrompt write
WritePrompt(c) ==
    /\ mounted
    /\ Quiet(sendMessage(socket, sockets, PromptWrite(c)))
    /\ ev' = Event("WritePrompt", c, <<>>, 0, 0)
    /\ UNCHANGED <<conversations, systemPrompt, loadedConversation, model,
                   maxRetries, uuids, stream>>

\* What a click on a directory entry transmits: the Load request, then the
\* ConversationList request of the effect on selectedModal, which the click
\* sets back to null
LoadSends(sock, socks, id) ==
    sendMessage(sock, socks, LoadRequest(id))
    \o sendMessage(sock, socks, ListRequest)

\* A click on entry i of the directory (the History modal)
LoadClick(i) ==
    /\ mounted
    /\ i \in 1..Len(conversations)
    /\ Quiet(LoadSends(socket, sockets, conversations[i].id))
    /\ ev' = Event("LoadClick", "", <<>>, i, 0)
    /\ UNCHANGED <<conversations, systemPrompt, loadedConversation, model,
                   maxRetries, uuids, stream>>

\* -------------------------------------------------------- socket events
\* A faulty variant of ws.onopen: setRetryCount(0) is left out
SocketOpenKeepsRetry(s) ==
    /\ sockets[s].readyState = "CONNECTING"
    /\ Commit(mounted, socket,
              IF mounted THEN "connected" ELSE connectionStatus,
              IF mounted THEN "null" ELSE error,
              retryCount,
              [sockets EXCEPT ![s].readyState = "OPEN"], timers, <<>>)
    /\ ev' = Event("SocketOpen", "", <<>>, 0, s)
    /\ UNCHANGED <<conversations, systemPrompt, loadedConversation, model,
                   maxRetries, uuids, stream>>

\* ws.onopen
SocketOpen(s) ==
    /\ sockets[s].readyState = "CONNECTING"
    /\ Commit(mounted, socket,
              IF mounted THEN "connected" ELSE connectionStatus,
              IF mounted THEN "null" ELSE error,
              IF mounted THEN 0 ELSE retryCount,
              [sockets EXCEPT ![s].readyState = "OPEN"], timers, <<>>)
    /\ ev' = Event("SocketOpen", "", <<>>, 0, s)
    /\ UNCHANGED <<conversations, systemPrompt, loadedConversation, model,
                   maxRetries, uuids, stream>>

\* ws.onerror
SocketError(s) ==
    /\ sockets[s].readyState \in {"CONNECTING", "OPEN"}
    /\ Commit(mounted, socket, connectionStatus,
              IF mounted THEN "WebSocket error occurred" ELSE error,
              retryCount, sockets, timers, <<>>)
    /\ ev' = Event("SocketError", "", <<>>, 0, s)
    /\ UNCHANGED <<conversations, systemPrompt, loadedConversation, model,
                   maxRetries, uuids, stream>>

\* The retry the onclose handler of socket s schedules: the retryCount it
\* compares is the one its connect closure captured, and the timeout calls
\* that same closure
Scheduled(tm, sock, limit) ==
    IF sock.capRetry < limit
    THEN Append(tm, [retry |-> sock.capRetry, status |-> sock.capStatus])
    ELSE tm

\* ws.onclose, for a closure of either kind (the handler does not look)
SocketClose(s, kind) ==
    /\ sockets[s].readyState \in {"CONNECTING", "OPEN", "CLOSING"}
    /\ kind = "normal" \/ sockets[s].readyState # "CLOSING"
    /\ Len(Scheduled(timers, sockets[s], maxRetries)) <= MaxTimers
    /\ Commit(mounted,
              IF mounted THEN 0 ELSE socket,
              IF mounted THEN "disconnected" ELSE connectionStatus,
              error, retryCount,
              [sockets EXCEPT ![s].readyState = "CLOSED"],
              Scheduled(timers, sockets[s], maxRetries), <<>>)
    /\ ev' = Event("SocketClose", kind, <<>>, 0, s)
    /\ UNCHANGED <<conversations, systemPrompt, loadedConversation, model,
                   maxRetries, uuids, stream>>

\* The timeout set by onclose fires: setRetryCount(prev => prev + 1), then
\* connect() of the closure that set it
RetryTimer ==
    /\ timers # <<>>
    /\ FreshSocket(sockets) # 0
    /\ Commit(mounted,
              IF mounted THEN FreshSocket(sockets) ELSE socket,
              connectionStatus, error,
              IF mounted THEN retryCount + 1 ELSE retryCount,
              Connect(sockets, Head(timers)), Tail(timers), <<>>)
    /\ ev' = Event("RetryTimer", "", <<>>, 0, FreshSocket(sockets))
    /\ UNCHANGED <<conversations, systemPrompt, loadedConversation, model,
                   maxRetries, uuids, stream>>

\* The page is torn down: React runs the cleanup of every effect (the
\* hook's closes the socket its render captured, MainPage's clears the
\* heartbeat interval); the timeouts set by onclose are left pending
Unmount ==
    /\ mounted
    /\ Commit(FALSE, socket, connectionStatus, error, retryCount, sockets,
              timers, <<>>)
    /\ ev' = Event("Unmount", "", <<>>, 0, 0)
    /\ UNCHANGED <<conversations, systemPrompt, loadedConversation, model,
                   maxRetries, uuids, stream>>

\* ------------------------------------------------------------ specifications
\* After the first render and its effects: connect() has created a socket,
\* the effect's cleanup has captured the null socket of that render.
InitWith(limits) ==
    /\ maxRetries \in limits
    /\ socket = 1
    /\ systemPrompt = ""
    /\ conversations = <<>>
    /\ loadedConversation = conversationDefault(0)
    /\ connectionStatus = "disconnected"
    /\ error = "null"
    /\ retryCount = 0
    /\ model = DefaultModel
    /\ mounted = TRUE
    /\ sockets = [n \in SocketIds |->
                    IF n = 1 THEN [readyState |-> "CONNECTING", capRetry |-> 0,
                                   capStatus |-> "disconnected"]
                    ELSE NoSocket]
    /\ timers = <<>>
    /\ connectCap = [retry |-> 0, status |-> "disconnected"]
    /\ cleanupSocket = 0
    /\ uuids = 0
    /\ out = <<>>
    /\ ev = Event("mount", "", <<>>, 0, 0)
    /\ stream = [on |-> FALSE, acc |-> <<>>]

\* What new WebSocket(url) throws, on a url it cannot use
ConstructorErrors == {"SyntaxError"}

\* A faulty variant of the catch of connect(): the error is swallowed
RecordedErrorNone(err) == "null"

\* The catch of connect(): what was thrown is an Error, and is recorded as is
RecordedError(err) == err

\* After the first render and its effects when the constructor throws:
\* connect() has recorded the error and returned, with no socket made,
\* no handler attached and setSocket not called
InitFailed(limits) ==
    /\ maxRetries \in limits
    /\ socket = 0
    /\ systemPrompt = ""
    /\ conversations = <<>>
    /\ loadedConversation = conversationDefault(0)
    /\ connectionStatus = "disconnected"
    /\ \E err \in ConstructorErrors : error = RecordedError(err)
    /\ retryCount = 0
    /\ model = DefaultModel
    /\ mounted = TRUE
    /\ sockets = [n \in SocketIds |-> NoSocket]
    /\ timers = <<>>
    /\ connectCap = [retry |-> 0, status |-> "disconnected"]
    /\ cleanupSocket = 0
    /\ uuids = 0
    /\ out = <<>>
    /\ ev = Event("mount", "", <<>>, 0, 0)
    /\ stream = [on |-> FALSE, acc |-> <<>>]

\* The deployed page: MainPage passes maxRetries: 0
Init == InitWith({DeployedMaxRetries})

Next ==
    \/ \E s \in SocketIds : SocketOpen(s)
    \/ \E s \in SocketIds, kind \in {"normal", "abnormal"} : SocketClose(s, kind)
    \/ \E s \in SocketIds, f \in CompletionFrames \cup LoadFrames : Receive(s, f)
    \/ \E data \in Texts : Submit(data)
    \/ StartNew
    \/ \E i \in 1..MaxMsgs : Fork(i)

Spec == Init /\ [][Next]_vars

\* The hook under every maxRetries option, the conversation left alone
InitRetry == InitWith(0..MaxRetriesOpt)

NextRetry ==
    \/ \E s \in SocketIds : SocketOpen(s)
    \/ \E s \in SocketIds : SocketError(s)
    \/ \E s \in SocketIds, kind \in {"normal", "abnormal"} : SocketClose(s, kind)
    \/ RetryTimer
    \/ \E s \in SocketIds, f \in PingFrames : Receive(s, f)
    \/ PingTick
    \/ Unmount

SpecRetry == InitRetry /\ [][NextRetry]_vars

\* The hook under every maxRetries option and under a url the constructor
\* accepts or refuses
InitConstruct == InitRetry \/ InitFailed(0..MaxRetriesOpt)

SpecConstruct == InitConstruct /\ [][NextRetry]_vars

\* The dispatch of inbound frames of every kind, on a conversation of one turn
NextFrames ==
    \/ \E s \in SocketIds : SocketOpen(s)
    \/ \E s \in SocketIds, kind \in {"normal", "abnormal"} : SocketClose(s, kind)
    \/ \E s \in SocketIds, f \in InboundFrames : Receive(s, f)
    \/ Len(loadedConversation.messages) = 0 /\ Submit(TextH)
    \/ \E c \in PromptTexts : WritePrompt(c)

SpecFrames == Init /\ [][NextFrames]_vars

\* The page operations that read the directory, the system prompt and the
\* selected model, on what the server sent: frames the dispatch takes whole
PageFrames ==
    {f \in PromptFrames \cup ListFrames \cup LoadFrames :
        f.pmethod # "none" /\ f.missing = {}}

NextPage ==
    \/ \E s \in SocketIds : SocketOpen(s)
    \/ \E s \in SocketIds, kind \in {"normal", "abnormal"} : SocketClose(s, kind)
    \/ \E s \in SocketIds, f \in PageFrames : Receive(s, f)
    \/ \E i \in 1..MaxMsgs : Fork(i)
    \/ \E i \in 1..MaxMsgs : LoadClick(i)
    \/ \E md \in Models : SelectModel(md)

SpecPage == Init /\ [][NextPage]_vars

\* ======================================================================
\* Properties
\* ======================================================================
Msgs == loadedConversation.messages
IdOrZero(id) == IF id = Null THEN 0 ELSE id

\* C1: starting from a conversation whose last message is an Assistant
\* placeholder with empty content, after any sequence of valid Completion
\* deltas with no other operation in between, the trailing message's content
\* is the concatenation of the deltas in the order they were received.
C1_DeltasConcatenate ==
    stream.on =>
        /\ mounted
        /\ Len(Msgs) > 0
        /\ Last(Msgs).content = stream.acc

\* The frames the declared response schema accepts: a top-level method among
\* the four, and a payload with every field required for that method
WellFormed(f) ==
    /\ f.json /\ f.hasPayload
    /\ \/ f.method = "Completion" /\ f.missing \cap CompletionFields = {}
       \/ f.method = "Ping" /\ "body" \notin f.missing
       \/ f.method = "ConversationList" /\ "conversations" \notin f.missing
       \/ f.method = "SystemPrompt" /\ f.missing \cap {"content", "write"} = {}

\* C2: every well-formed frame {method: M, payload: P} is routed by its
\* top-level method M to the handler for M and applied to the state: the
\* directory for ConversationList, the status for Ping, the conversation for
\* Completion, the system prompt for SystemPrompt.
C2_RoutedByTopLevelMethod ==
    [][\A s \in SocketIds, f \in InboundFrames :
          (mounted /\ WellFormed(f) /\ Receive(s, f)) =>
             /\ f.method = "ConversationList" => conversations' = f.conversations
             /\ f.method = "Ping" => connectionStatus' = "connected"
             /\ f.method = "SystemPrompt" => systemPrompt' = f.content
             /\ (f.method = "Completion" /\ Len(Msgs) >= 2) =>
                   /\ Len(loadedConversation'.messages) = Len(Msgs)
                   /\ Last(loadedConversation'.messages).content
                         = Last(Msgs).content \o f.delta]_vars

\* C3: a Completion response received on a conversation that ends with a
\* User message followed by an Assistant message sets the trailing message's
\* id to responseId, the User message's id to requestId, the conversation's
\* id to conversationId and its name to name; a later delta carrying the
\* same identifiers leaves them all as they are.
C3_CompletionAssignsIds ==
    [][\A s \in SocketIds, f \in CompletionFrames :
          LET n == Len(Msgs)
              new == loadedConversation'
          IN  ( /\ mounted /\ IsDelta(f) /\ n >= 2
                /\ Msgs[n].message_type = "Assistant"
                /\ Msgs[n - 1].message_type = "User"
                /\ Receive(s, f) ) =>
                /\ Len(new.messages) = n
                /\ new.messages[n].id = f.responseId
                /\ new.messages[n - 1].id = f.requestId
                /\ new.id = f.conversationId
                /\ new.name = f.name
                /\ ( /\ Msgs[n].id = f.responseId
                     /\ Msgs[n - 1].id = f.requestId
                     /\ loadedConversation.id = f.conversationId
                     /\ loadedConversation.name = f.name ) =>
                      /\ new.messages[n].id = Msgs[n].id
                      /\ new.messages[n - 1].id = Msgs[n - 1].id
                      /\ new.id = loadedConversation.id
                      /\ new.name = loadedConversation.name]_vars

\* C3 witness: a second delta of the stream has been applied and the pair
\* carries the identifiers of the response
C3_Witness ==
    /\ mounted /\ ev.op = "Receive" /\ ev.kind = "Completion"
    /\ Len(Msgs) = 2
    /\ Msgs[1].message_type = "User" /\ Msgs[1].id = 10
    /\ Msgs[2].id = 11 /\ Msgs[2].content = DeltaA \o DeltaB
    /\ loadedConversation.id = 5 /\ loadedConversation.name = "x"

\* C4: submitting a non-empty turn on a conversation of any length len,
\* connected or not, appends exactly two messages, a User message with the
\* text and an Assistant message with empty content, with sequence len and
\* len + 1; the earlier messages and the conversation's id and name stay.
C4_SubmitAppendsTwo ==
    [][\A data \in Texts :
          LET n == Len(Msgs)
              new == loadedConversation'.messages
          IN  (Len(data) > 0 /\ Submit(data)) =>
                /\ Len(new) = n + 2
                /\ SubSeq(new, 1, n) = Msgs
                /\ new[n + 1].message_type = "User"
                /\ new[n + 1].content = data
                /\ new[n + 1].sequence = n
                /\ new[n + 2].message_type = "Assistant"
                /\ new[n + 2].content = <<>>
                /\ new[n + 2].sequence = n + 1
                /\ loadedConversation'.id = loadedConversation.id
                /\ loadedConversation'.name = loadedConversation.name]_vars

\* C4 witness: a second turn submitted while disconnected
C4_Witness ==
    /\ ev.op = "Submit" /\ ev.text = TextH
    /\ connectionStatus = "disconnected"
    /\ Len(Msgs) = 4
    /\ Msgs[3].message_type = "User" /\ Msgs[3].sequence = 2
    /\ Msgs[4].message_type = "Assistant" /\ Msgs[4].sequence = 3

\* A message id that is null becomes a number only when a Completion or Load
\* frame is applied
NullIdsStay ==
    \A i \in 1..Len(Msgs) :
        ( /\ Msgs[i].id = Null
          /\ i <= Len(loadedConversation'.messages)
          /\ loadedConversation'.messages[i].id # Null ) =>
            (ev'.op = "Receive" /\ ev'.kind \in {"Completion", "Load"})

C6_SubmitTransmitsConversation ==
    [][\A data \in Texts :
          LET n == Len(Msgs) IN
          (Len(data) > 0 /\ connectionStatus = "connected" /\ Submit(data)) =>
             /\ Len(out') = 1
             /\ out'[1].method = "Completion"
             /\ out'[1].payload = loadedConversation'
             /\ Len(out'[1].payload.messages) = n + 2
             /\ SubSeq(out'[1].payload.messages, 1, n) = Msgs]_vars

\* C6 witness: a second turn submitted while connected and put on the wire
C6_Witness ==
    /\ ev.op = "Submit" /\ ev.text = TextH
    /\ connectionStatus = "connected"
    /\ Len(Msgs) = 4
    /\ out = <<[method |-> "Completion", payload |-> loadedConversation]>>

\* C7: submitting an empty text changes nothing in the conversation
\* (messages, id, name) and transmits no request.
C7_EmptyTurnIsNoOp ==
    [][Submit(<<>>) =>
          /\ loadedConversation' = loadedConversation
          /\ out' = <<>>]_vars

\* C7 witness: an empty text submitted while the socket is open, on a
\* conversation that has messages
C7_Witness ==
    /\ ev.op = "Submit" /\ ev.text = <<>>
    /\ socket # 0 /\ sockets[socket].readyState = "OPEN"
    /\ Len(Msgs) = 2

\* C8: a Load response replaces the conversation in one step: afterwards its
\* id, name and messages are those of the conversation the server sent and
\* no message of the conversation before remains.
C8_LoadReplaces ==
    [][\A s \in SocketIds, f \in LoadFrames :
          ( /\ mounted /\ f.json /\ f.hasPayload /\ f.pmethod = "Load"
            /\ ConversationParses(f) /\ Receive(s, f) ) =>
             /\ loadedConversation'.id = f.conv.id
             /\ loadedConversation'.name = f.conv.name
             /\ loadedConversation'.messages = f.conv.messages]_vars

\* C8 witness: the conversation is the three-message one the server sent
C8_Witness ==
    /\ mounted /\ ev.op = "Receive" /\ ev.kind = "Load"
    /\ loadedConversation = SrvB

\* Sequence values equal array indexes
IndexSequenced(c) ==
    \A i \in 1..Len(c.messages) : c.messages[i].sequence = i - 1

\* C9 as claimed: after a Fork at cut sequence k on a conversation whose
\* sequences equal their array indexes, the conversation has exactly k + 2
\* messages: the first k + 1 unchanged, then one reset Assistant placeholder
\* with id null and content "".
C9_Original ==
    [][\A i \in 1..MaxMsgs :
          LET k == Msgs[i].sequence
              new == loadedConversation'.messages
          IN  ( /\ IndexSequenced(loadedConversation)
                /\ ~ForkThrows(loadedConversation)
                /\ Fork(i) ) =>
                /\ Len(new) = k + 2
                /\ SubSeq(new, 1, k + 1) = SubSeq(Msgs, 1, k + 1)
                /\ Last(new).id = Null /\ Last(new).content = <<>>
                /\ Last(new).message_type = "Assistant"]_vars

\* C9 amended: after a Fork at cut sequence k on such a conversation (one
\* that has a conversation id, so that the Fork goes through), the
\* conversation has exactly k + 1 messages: the first k unchanged, and the
\* message at index k reset to an Assistant placeholder with id null and
\* content "".
C9_ForkLength ==
    [][\A i \in 1..MaxMsgs :
          LET k == Msgs[i].sequence
              new == loadedConversation'.messages
          IN  ( /\ IndexSequenced(loadedConversation)
                /\ ~ForkThrows(loadedConversation)
                /\ Fork(i) ) =>
                /\ Len(new) = k + 1
                /\ SubSeq(new, 1, k) = SubSeq(Msgs, 1, k)
                /\ new[k + 1].id = Null /\ new[k + 1].content = <<>>
                /\ new[k + 1].message_type = "Assistant"]_vars

\* C9 witness: a fork at sequence 2 of the loaded three-message conversation
C9_Witness ==
    /\ ev.op = "Fork" /\ ev.k = 2
    /\ loadedConversation.id = 6
    /\ Len(Msgs) = 3
    /\ Msgs[1] = SrvB.messages[1] /\ Msgs[2] = SrvB.messages[2]
    /\ Msgs[3].id = Null /\ Msgs[3].content = <<>>

\* C10: the retry counter is at most maxRetries in every reachable state, and
\* once the counter has reached maxRetries a closure schedules no reconnect
\* and leaves the status disconnected, for every maxRetries >= 0.
C10_RetryBounded ==
    [][ /\ retryCount' <= maxRetries
        /\ (ev'.op = "SocketClose" /\ retryCount >= maxRetries) =>
              (timers' = timers /\ connectionStatus' = "disconnected") ]_vars

\* C11: every socket open event sets the connection status to connected,
\* resets the retry counter to zero and clears any recorded error, whatever
\* the state before the event.
C11_OpenResets ==
    [][\A s \in SocketIds :
          (mounted /\ SocketOpen(s)) =>
             /\ connectionStatus' = "connected"
             /\ retryCount' = 0
             /\ error' = "null"]_vars

\* C11 witness: the socket created by the first retry has opened before any
\* later socket did (so the counter was 1 and the status disconnected when
\* it opened)
C11_Witness ==
    /\ mounted /\ ev.op = "SocketOpen" /\ ev.s = 2
    /\ sockets[1].readyState = "CLOSED"
    /\ sockets[3].readyState = "CONNECTING"
    /\ connectionStatus = "connected" /\ retryCount = 0 /\ error = "null"

\* The methods the dispatch knows
Recognized == {"ConversationList", "Ping", "Completion", "SystemPrompt", "Load"}

\* A frame that is not text of a frame, has no recognized method at either
\* place a tag may sit, or lacks a required field of its shape
Malformed(f) ==
    \/ ~f.json \/ ~f.hasPayload
    \/ f.method \notin Recognized /\ f.pmethod \notin Recognized
    \/ f.missing # {}

\* C12: an inbound frame whose method is not a recognized one, or whose
\* payload lacks a required field of its shape, leaves the connection status,
\* the error, the conversation, the directory and the system prompt as they
\* were (and the page standing).
C12_MalformedFrameIgnored ==
    [][\A s \in SocketIds, f \in InboundFrames :
          (mounted /\ Malformed(f) /\ Receive(s, f)) =>
             /\ mounted'
             /\ UNCHANGED <<connectionStatus, error, loadedConversation,
                            conversations, systemPrompt>>]_vars

\* C13: a Ping frame received while the status is not connected makes the
\* status connected; received while connected, it leaves the status connected.
C13_PingPromotes ==
    [][\A s \in SocketIds, f \in PingFrames :
          (mounted /\ Receive(s, f)) => connectionStatus' = "connected"]_vars

\* C14: a frame is put on the wire only in states where the connection status
\* is connected; a send attempted in any other state transmits nothing and
\* leaves the page standing.
C14_SendOnlyConnected ==
    [][ /\ out' # <<>> => connectionStatus' = "connected"
        /\ (PingTick /\ connectionStatus # "connected") =>
              (out' = <<>> /\ mounted') ]_vars

\* C14 witness: a heartbeat went out on the socket of the second retry while
\* connected
C14_Witness ==
    /\ ev.op = "PingTick" /\ out = <<PingRequest>>
    /\ connectionStatus = "connected"
    /\ socket > 1 /\ sockets[socket].readyState = "OPEN"

\* C15: after a normal closure of the connection no reconnect is scheduled,
\* even when the retry counter is below maxRetries.
C15_NormalCloseNoRetry ==
    [][(ev'.op = "SocketClose" /\ ev'.kind = "normal") => timers' = timers]_vars

\* C16: once the page is torn down the connection current at that moment is
\* closed and no retry is left pending; afterwards no timer callback runs
\* and no socket is created.
C16_TeardownReleases ==
    [][ /\ Unmount =>
              /\ socket # 0 => sockets'[socket].readyState \in {"CLOSING", "CLOSED"}
              /\ timers' = <<>>
        /\ ~mounted =>
              /\ ev'.op \notin {"RetryTimer", "PingTick"}
              /\ \A n \in SocketIds :
                    sockets[n].readyState = "NONE" => sockets'[n].readyState = "NONE"
      ]_vars

\* The socket the hook holds is open
ConnectionOpen == socket # 0 /\ sockets[socket].readyState = "OPEN"

\* C17: while the page is mounted a heartbeat tick may come whatever the
\* connection status; it transmits Ping{body: "ping"} when the connection is
\* open and nothing otherwise, and never changes the status, the error or
\* the conversation.
C17_HeartbeatTick ==
    /\ [][PingTick =>
            /\ out' = IF ConnectionOpen
                      THEN <<[method |-> "Ping", payload |-> [body |-> "ping"]]>>
                      ELSE <<>>
            /\ UNCHANGED <<connectionStatus, error, loadedConversation>>]_vars
    /\ [](mounted => ENABLED PingTick)

\* C17 witness: a tick while disconnected, dropped
C17_Witness ==
    /\ ev.op = "PingTick" /\ out = <<>>
    /\ connectionStatus = "disconnected" /\ mounted

\* The content the SystemPrompt branch reads from a payload
ContentOf(f) == IF "content" \in f.missing THEN Undefined ELSE f.content

\* C18: issuing a SystemPrompt write leaves the local system prompt as it
\* is; the prompt changes only when a SystemPrompt response is received, and
\* a SystemPrompt response received sets it to the response's content.
C18_PromptOnlyFromServer ==
    [][ /\ \A c \in PromptTexts : WritePrompt(c) => systemPrompt' = systemPrompt
        /\ systemPrompt' # systemPrompt =>
              \E s \in SocketIds, f \in PromptFrames :
                 /\ Receive(s, f) /\ f.pmethod = "SystemPrompt"
                 /\ systemPrompt' = ContentOf(f)
        /\ \A s \in SocketIds, f \in PromptFrames :
              (mounted /\ f.pmethod = "SystemPrompt" /\ Receive(s, f)) =>
                 systemPrompt' = ContentOf(f) ]_vars

\* C18 witness: a write was sent from a page that holds the prompt the
\* server sent before
C18_Witness ==
    /\ ev.op = "WritePrompt" /\ ev.kind = "be kind"
    /\ out = <<PromptWrite("be kind")>>
    /\ systemPrompt = "be brief"

\* The names the conversation has had or could have been given by the server
NamesBefore(n) == {Uuid(j) : j \in 0..n} \cup {c.name : c \in ServerConversations}

\* C19: Start new replaces the conversation by a fresh one with id null, no
\* messages and a newly generated name; nothing of the conversation before
\* is kept, whatever state it was in.
C19_StartNewReplaces ==
    [][StartNew =>
          /\ loadedConversation'.id = Null
          /\ loadedConversation'.messages = <<>>
          /\ loadedConversation'.name # loadedConversation.name
          /\ loadedConversation'.name \notin NamesBefore(uuids)]_vars

\* C19 witness: Start new on a conversation that was receiving a stream
C19_Witness ==
    /\ ev.op = "StartNew" /\ ev.kind = "midstream" /\ ev.k = 2
    /\ loadedConversation = conversationDefault(1)

\* C20: in every reachable state the sequence of the message at array index
\* i is i, after any Start new, Load, Submit, Completion delta and Fork.
C20_SequencesContiguous == IndexSequenced(loadedConversation)

\* A message that waits for its first delta
Pending(msg) == msg.content = <<>> /\ msg.id = Null

\* C21: in every reachable state at most one message of the conversation is
\* pending (empty content, null id), and a pending message is the last one,
\* also after a second submit made before any delta of the first.
C21_OnePendingLast ==
    /\ Cardinality({i \in 1..Len(Msgs) : Pending(Msgs[i])}) <= 1
    /\ \A i \in 1..Len(Msgs) : Pending(Msgs[i]) => i = Len(Msgs)

\* The closed request schema
Conforms(r) ==
    \/ r.method = "ConversationList"
    \/ r.method = "Ping" /\ r.payload.body \in STRING
    \/ r.method = "Completion"
    \/ r.method = "Load" /\ r.payload.id # Null
    \/ r.method = "SystemPrompt" /\ r.payload.write \in BOOLEAN
    \/ r.method = "Fork" /\ r.payload.conversationId # Null

\* C22: every request put on the wire conforms to the closed request schema;
\* a request value that violates it (a Load or a Fork with a null id) is
\* never transmitted.
C22_RequestsConform == \A j \in 1..Len(out) : Conforms(out[j])

\* C23: the role of a message never changes after the message is created:
\* Submit, a Completion delta and Fork leave the role of every message that
\* stays in the conversation.
C23_RoleFixed ==
    [][ ( \/ ev'.op \in {"Submit", "Fork"}
          \/ ev'.op = "Receive" /\ ev'.kind = "Completion" ) =>
        \A i \in 1..Len(Msgs) :
            i <= Len(loadedConversation'.messages) =>
               loadedConversation'.messages[i].message_type
                  = Msgs[i].message_type ]_vars

\* C24: a Completion delta changes the content of a message only if that
\* message is the last of the conversation and its role is Assistant.
C24_DeltaOnlyTrailingAssistant ==
    [][ (ev'.op = "Receive" /\ ev'.kind = "Completion") =>
        \A i \in 1..Len(Msgs) :
            ( /\ i <= Len(loadedConversation'.messages)
              /\ loadedConversation'.messages[i].content # Msgs[i].content ) =>
               (i = Len(Msgs) /\ Msgs[i].message_type = "Assistant") ]_vars

\* The sockets that are connecting or open
Live(socks) == {n \in SocketIds : socks[n].readyState \in {"CONNECTING", "OPEN"}}

\* C25: at any time at most one socket that is connecting or open exists.
C25_OneLiveSocket == Cardinality(Live(sockets)) <= 1

\* No socket was ever made: the constructor threw
ConstructionFailed == \A n \in SocketIds : sockets[n].readyState = "NONE"

\* C26: when constructing the socket fails, connect() records an error and
\* returns: the page stands, no socket handle is stored, the connection
\* status is as it was and no retry is scheduled.
C26_ConstructionFailureRecorded ==
    ConstructionFailed =>
        /\ error \in ConstructorErrors
        /\ socket = 0
        /\ connectionStatus = "disconnected"
        /\ retryCount = 0
        /\ timers = <<>>
        /\ mounted \/ ev.op = "Unmount"

\* C26 witness: the page after a failed construction, still up, a heartbeat
\* tick later
C26_Witness ==
    /\ ConstructionFailed /\ mounted
    /\ error = "SyntaxError" /\ socket = 0
    /\ ev.op = "PingTick" /\ out = <<>>

\* C27: a send attempted while not connected is dropped: the status, the
\* error, the conversation, the directory and the system prompt stay, and
\* the frame is not transmitted later (a Ping is on the wire only in the
\* step of the tick that sends it).
C27_DroppedSendIsLost ==
    [][ /\ (PingTick /\ connectionStatus # "connected") =>
              /\ out' = <<>>
              /\ UNCHANGED <<connectionStatus, error, loadedConversation,
                             conversations, systemPrompt>>
        /\ \A j \in 1..Len(out') :
              out'[j] = PingRequest => ev'.op = "PingTick" ]_vars

\* C27 witness: a tick dropped after a closure, while a retry is pending
C27_Witness ==
    /\ ev.op = "PingTick" /\ out = <<>>
    /\ socket = 0 /\ timers # <<>>
    /\ connectionStatus = "disconnected"

\* C28 as claimed: a Fork at cut sequence k truncates the messages to k + 1
\* elements and resets the message at index k to content "", id null, role
\* Assistant, the current system prompt and the selected model; the messages
\* before it and the conversation's id and name stay, and a Fork request
\* with the conversation id and k is transmitted.  (Stated for the
\* conversations on which a Fork does cut at k: sequences equal to indexes,
\* and an id for the request to carry.)
C28_Original ==
    [][\A i \in 1..MaxMsgs :
          LET k == Msgs[i].sequence
              new == loadedConversation'.messages
          IN  ( /\ IndexSequenced(loadedConversation)
                /\ ~ForkThrows(loadedConversation)
                /\ Fork(i) ) =>
                /\ Len(new) = k + 1
                /\ SubSeq(new, 1, k) = SubSeq(Msgs, 1, k)
                /\ new[k + 1].content = <<>> /\ new[k + 1].id = Null
                /\ new[k + 1].message_type = "Assistant"
                /\ new[k + 1].system_prompt = systemPrompt
                /\ new[k + 1].api = model
                /\ loadedConversation'.id = loadedConversation.id
                /\ loadedConversation'.name = loadedConversation.name
                /\ out' = <<ForkRequest(loadedConversation.id, k)>>]_vars

\* C28 amended: on a conversation whose id is not null, a Fork at cut
\* sequence k keeps the first min(k + 1, length) messages and resets the last
\* of them to content "", id null, role Assistant, the current system prompt
\* and the selected model; the messages before it and the conversation's id
\* and name stay; the Fork request is transmitted when the socket held is
\* open and dropped otherwise.  On a conversation whose id is null the Fork
\* changes nothing and transmits nothing.
C28_ForkResets ==
    [][\A i \in 1..MaxMsgs :
          LET k == Msgs[i].sequence
              n == Min(k + 1, Len(Msgs))
              new == loadedConversation'.messages
          IN  /\ (Fork(i) /\ ~ForkThrows(loadedConversation)) =>
                /\ Len(new) = n
                /\ SubSeq(new, 1, n - 1) = SubSeq(Msgs, 1, n - 1)
                /\ new[n].content = <<>> /\ new[n].id = Null
                /\ new[n].message_type = "Assistant"
                /\ new[n].system_prompt = systemPrompt
                /\ new[n].api = model
                /\ new[n].sequence = Msgs[n].sequence
                /\ loadedConversation'.id = loadedConversation.id
                /\ loadedConversation'.name = loadedConversation.name
                /\ out' = IF ConnectionOpen
                          THEN <<ForkRequest(loadedConversation.id, k)>>
                          ELSE <<>>
              /\ (Fork(i) /\ ForkThrows(loadedConversation)) =>
                /\ loadedConversation' = loadedConversation
                /\ out' = <<>>]_vars

\* C28 witness: a fork of the last message of a loaded conversation while
\* disconnected, with a system prompt from the server and the other model
C28_Witness ==
    /\ ev.op = "Fork" /\ ev.k = 2 /\ out = <<>>
    /\ connectionStatus = "disconnected"
    /\ systemPrompt = "be brief" /\ model # DefaultModel
    /\ loadedConversation.id = 6 /\ Len(Msgs) = 3
    /\ Msgs[3].id = Null /\ Msgs[3].content = <<>>
    /\ Msgs[3].system_prompt = "be brief" /\ Msgs[3].api = model

\* C29: for an abnormal closure below the limit, the retry increments the
\* counter by exactly one and makes exactly one new connection attempt.
C29_RetryOnce ==
    [][(mounted /\ RetryTimer) =>
          /\ retryCount' = retryCount + 1
          /\ Cardinality({n \in SocketIds :
                             /\ sockets[n].readyState = "NONE"
                             /\ sockets'[n].readyState # "NONE"}) = 1]_vars

\* C30: a valid Completion delta that arrives when the conversation has
\* fewer than two messages is dropped: no content or id changes, the
\* conversation's id and name stay, and no error escapes the handler.
C30_ShortConversationDelta ==
    [][\A s \in SocketIds, f \in CompletionFrames :
          (mounted /\ IsDelta(f) /\ Len(Msgs) < 2 /\ Receive(s, f)) =>
             /\ loadedConversation' = loadedConversation
             /\ mounted']_vars

\* C31: the status is one of connecting, connected and disconnected, and
\* while the socket made by connect() has had neither its open nor its close
\* event (and no other socket is there to set the status) it is connecting.
C31_ConnectingUntilEvent ==
    /\ connectionStatus \in {"connecting", "connected", "disconnected"}
    /\ ( /\ mounted /\ socket # 0
         /\ sockets[socket].readyState = "CONNECTING"
         /\ Live(sockets) = {socket} ) => connectionStatus = "connecting"

\* The latest step replaced the conversation: Start new, or a Load response
\* that was applied.  No request has been made for the replacement yet.
JustReplaced ==
    \/ ev.op = "StartNew"
    \/ ev.op = "Receive" /\ ev.kind = "Load" /\ ev.parsed

\* C32: a Completion delta that arrives after the conversation it was
\* requested for has been replaced, by Start new or by a Load response, does
\* not modify the replacement: its messages, id and name stay as loaded or
\* created (and the page stands).
C32_LateDeltaIgnored ==
    [][\A s \in SocketIds, f \in CompletionFrames :
          (mounted /\ JustReplaced /\ IsDelta(f) /\ Receive(s, f)) =>
             /\ loadedConversation' = loadedConversation
             /\ mounted']_vars

\* C33: in every reachable state of the mounted page, status connected
\* implies that the socket handle held is not null and that socket is open,
\* also when several sockets were created by retries.
C33_ConnectedMeansOpen ==
    (mounted /\ connectionStatus = "connected") => ConnectionOpen

\* C34: a Fork requested on a conversation whose id is null transmits no
\* Fork request and leaves the conversation unchanged: no truncation and
\* no reset of any message (and the page stands).
C34_ForkWithoutIdIsNoOp ==
    [][\A i \in 1..MaxMsgs :
          (loadedConversation.id = Null /\ Fork(i)) =>
             /\ loadedConversation' = loadedConversation
             /\ out' = <<>>
             /\ mounted']_vars

\* C34 witness: Regenerate clicked, while the socket is open, on the first
\* placeholder of a conversation of two turns that the server never
\* acknowledged: the messages after it are still there
C34_Witness ==
    /\ ev.op = "Fork" /\ ev.k = 1 /\ out = <<>>
    /\ mounted /\ ConnectionOpen
    /\ loadedConversation.id = Null
    /\ Len(Msgs) = 4 /\ Msgs[3].content = TextH

\* Message a with its id, or its id and content, put aside
SaveId(a) == [a EXCEPT !.id = Null]
SaveIdContent(a) == [a EXCEPT !.id = Null, !.content = <<>>]

\* C35: applying a Completion delta keeps the number of messages and leaves
\* every message other than the last two exactly as it was; of the
\* second-to-last message only the id changes, and of the last message only
\* content and id change.
C35_DeltaTouchesLastTwo ==
    [][\A s \in SocketIds, f \in CompletionFrames :
          LET n == Len(Msgs)
              new == loadedConversation'.messages
          IN  (mounted /\ IsDelta(f) /\ Receive(s, f)) =>
                /\ Len(new) = n
                /\ \A i \in 1..n :
                      /\ i < n - 1 => new[i] = Msgs[i]
                      /\ i = n - 1 => SaveId(new[i]) = SaveId(Msgs[i])
                      /\ i = n => SaveIdContent(new[i]) = SaveIdContent(Msgs[i])]_vars

\* C35 witness: a delta applied to the loaded conversation of three messages:
\* the first is as loaded, the second has the request's id, the third the
\* response's id and the delta
C35_Witness ==
    /\ mounted /\ ev.op = "Receive" /\ ev.kind = "Completion"
    /\ Len(Msgs) = 3
    /\ Msgs[1] = SrvB.messages[1]
    /\ Msgs[2] = [SrvB.messages[2] EXCEPT !.id = 12]
    /\ Msgs[3] = [SrvB.messages[3] EXCEPT !.id = 13, !.content = DeltaA \o DeltaA]

\* C36: Ping, ConversationList and SystemPrompt responses never change the
\* conversation: a ConversationList response only replaces the directory with
\* the list received, a SystemPrompt response only replaces the system
\* prompt, and a Ping response changes nothing but the connection status.
C36_OtherFramesKeepConversation ==
    [][\A s \in SocketIds, f \in PingFrames \cup ListFrames \cup PromptFrames :
          ( /\ mounted /\ Receive(s, f)
            /\ f.pmethod \in {"Ping", "ConversationList", "SystemPrompt"} ) =>
             /\ loadedConversation' = loadedConversation
             /\ mounted' /\ error' = error
             /\ f.pmethod = "ConversationList" =>
                   /\ ListParses(f) => conversations' = f.conversations
                   /\ UNCHANGED <<systemPrompt, connectionStatus>>
             /\ f.pmethod = "SystemPrompt" =>
                   /\ systemPrompt' = ContentOf(f)
                   /\ UNCHANGED <<conversations, connectionStatus>>
             /\ f.pmethod = "Ping" =>
                   UNCHANGED <<conversations, systemPrompt>>]_vars

\* C36 witness: a directory received by a page that holds a conversation in
\* the middle of a turn and a system prompt from the server
C36_Witness ==
    /\ mounted /\ ev.op = "Receive" /\ ev.kind = "ConversationList"
    /\ conversations = <<SrvA, SrvB>>
    /\ systemPrompt = "be brief"
    /\ Len(Msgs) = 2 /\ Msgs[1].content = TextH /\ Msgs[2].content = DeltaA

\* C37: every transition of the connection status to connected is followed
\* by the transmission of one SystemPrompt read request (write false, content
\* "") on the connection, which is open, also after a reconnect.
C37_PromptReadOnConnected ==
    [][ ( /\ mounted'
          /\ connectionStatus # "connected"
          /\ connectionStatus' = "connected" ) =>
        /\ out' = <<[method |-> "SystemPrompt",
                     payload |-> [write |-> FALSE, content |-> ""]]>>
        /\ socket' # 0 /\ sockets'[socket'].readyState = "OPEN" ]_vars

====
